---- MODULE Spec2Model ----
(***************************************************************************)
(* A model of update-gomod.py: the walk over gx package manifests          *)
(* (get_repo_deps), the mapping of a package to its git repository, the    *)
(* resolution of a gx hash to a tag or a commit, and the update/download   *)
(* drivers.                                                                *)
(*                                                                         *)
(* Python strings are sequences of symbols.  A symbol is a separator       *)
(* ("/", ":", "\n"), a single character, or a run of characters that no    *)
(* operation of the program looks into (a host name, a package name).      *)
(* An optional value is a sequence of length 0 (None) or 1.                *)
(***************************************************************************)
EXTENDS Integers, Sequences, FiniteSets, TLC

VARIABLES
    fs,             \* the files on disk: manifest file path -> parsed manifest
    root_repo_path, \* the path argument of the run
    mode,           \* "update", "download", or "walk" (get_repo_deps called alone)
    pc,             \* where the run is
    queue,          \* get_repo_deps: the work list
    visited_repos,  \* get_repo_deps: the visited set
    deps,           \* get_repo_deps: the accumulated RepoVersion records
    opens,          \* the manifest paths open() was called on, in order
    github_deps,    \* what get_repo_deps returned (None until it returns)
    idx,            \* update_repos / download_repos: index of the next entry
    sink,           \* the `go get repo@indicator` invocations made, in order
    downloaded,     \* the repositories git clone/fetch ran on, in order
    obs,            \* update_repos: per processed dependency, what the queries answered
    inp,            \* the argument of a function called on its own
    out             \* its result

vars == <<fs, root_repo_path, mode, pc, queue, visited_repos, deps, opens,
          github_deps, idx, sink, downloaded, obs, inp, out>>

None == <<>>
Some(x) == <<x>>

(* ---------------------------------------------------------------------- *)
(* Bounds                                                                  *)
(* ---------------------------------------------------------------------- *)
\* total number of child references in the manifests on disk
MaxRefs == 3
\* length of an import path given to the locator on its own
MaxPkgLen == 7
\* number of characters put before the hexadecimal run of a candidate token
MaxAffix == 2
\* length of the dependency list given to update_repos on its own
MaxDeps == 2

(* ---------------------------------------------------------------------- *)
(* str.split, str.join, str.startswith, list slicing                       *)
(* ---------------------------------------------------------------------- *)
RECURSIVE SplitAcc(_, _, _, _)
SplitAcc(s, sep, i, cur) ==
    IF i > Len(s) THEN <<cur>>
    ELSE IF s[i] = sep THEN <<cur>> \o SplitAcc(s, sep, i + 1, <<>>)
    ELSE SplitAcc(s, sep, i + 1, Append(cur, s[i]))

Split(s, sep) == SplitAcc(s, sep, 1, <<>>)

RECURSIVE Join(_, _)
Join(parts, sep) ==
    IF Len(parts) = 0 THEN <<>>
    ELSE IF Len(parts) = 1 THEN parts[1]
    ELSE parts[1] \o <<sep>> \o Join(Tail(parts), sep)

StartsWith(s, prefix) ==
    /\ Len(s) >= Len(prefix)
    /\ SubSeq(s, 1, Len(prefix)) = prefix

\* lst[:n]
Slice(lst, n) == SubSeq(lst, 1, IF Len(lst) < n THEN Len(lst) ELSE n)

\* s[n:]
DropFirst(s, n) == SubSeq(s, n + 1, Len(s))

Range(s) == { s[i] : i \in 1..Len(s) }

(* ---------------------------------------------------------------------- *)
(* Paths                                                                   *)
(* ---------------------------------------------------------------------- *)
GX_PREFIX == <<"$GOPATH", "/", "src", "/", "gx", "/", "ipfs">>

make_gx_path(gx_hash, repo_name) ==
    GX_PREFIX \o <<"/">> \o gx_hash \o <<"/">> \o repo_name

\* the "/" after the prefix is not removed
extract_gx_hash_slash_kept(gx_path) ==
    IF ~StartsWith(gx_path, GX_PREFIX) THEN [ok |-> FALSE]
    ELSE LET path_list == Split(DropFirst(gx_path, Len(GX_PREFIX)), "/")
         IN  IF Len(path_list) < 2 THEN [ok |-> FALSE]
             ELSE [ok |-> TRUE, gx_hash |-> path_list[1], name |-> path_list[2]]

\* [ok |-> FALSE] stands for the ValueError
extract_gx_hash(gx_path) ==
    IF ~StartsWith(gx_path, GX_PREFIX) THEN [ok |-> FALSE]
    ELSE LET path_list == Split(DropFirst(gx_path, Len(GX_PREFIX) + 1), "/")
         IN  IF Len(path_list) < 2 THEN [ok |-> FALSE]
             ELSE [ok |-> TRUE, gx_hash |-> path_list[1], name |-> path_list[2]]

PackageFilePath(repo_path) == repo_path \o <<"/", "package.json">>

(* ---------------------------------------------------------------------- *)
(* The repository of a package                                             *)
(* ---------------------------------------------------------------------- *)
\* the keys of the inlined table that the model keeps; every entry of the
\* table has the form name -> github.com/gxed/name
GxedNames == { <<"bbloom">>, <<"errors">>, <<"sys">> }

repo_map_literal == [ n \in GxedNames |-> <<"github.com", "/", "gxed", "/">> \o n ]

\* del repo_map['bbloom']
get_gxed_repos_from_github ==
    [ n \in (DOMAIN repo_map_literal) \ { <<"bbloom">> } |-> repo_map_literal[n] ]

DvcsSegmentsTwo(layered_paths) == Slice(layered_paths, 2)

\* layered_paths[:3]
DvcsSegments(layered_paths) == Slice(layered_paths, 3)

_dvcsimport_to_git_repo(dvcsimport_path) ==
    Join(DvcsSegments(Split(dvcsimport_path, "/")), "/")

UseGxedRepo(gx_pkg_name, gxed_repo_map) == gx_pkg_name \in DOMAIN gxed_repo_map

GitRepoOf(gx_pkg_name, pkg) ==
    LET gxed_repo_map == get_gxed_repos_from_github
    IN  IF UseGxedRepo(gx_pkg_name, gxed_repo_map)
        THEN gxed_repo_map[gx_pkg_name]
        ELSE _dvcsimport_to_git_repo(pkg)

\* the symbols that have "github.com" as a substring
ForgeSymbols == { "github.com", "mygithub.com" }

\* "github.com" in git_repo
IsGithubRepo(git_repo) == \E i \in 1..Len(git_repo) : git_repo[i] \in ForgeSymbols

(* ---------------------------------------------------------------------- *)
(* The manifests on disk                                                   *)
(* ---------------------------------------------------------------------- *)
\* a project directory that is no gx package
ProjectPath == <<"/", "proj">>

\* the (name, hash) pairs a manifest may list under gxDependencies; the hash
\* h1 is listed under two names, and no manifest exists for h3/foo
RefFoo == [name |-> <<"foo">>, hash |-> <<"h1">>]
RefErrors == [name |-> <<"errors">>, hash |-> <<"h1">>]
RefBbloom == [name |-> <<"bbloom">>, hash |-> <<"h2">>]
RefGone == [name |-> <<"foo">>, hash |-> <<"h3">>]

ChildRefs == { RefFoo, RefErrors, RefBbloom, RefGone }

RefPath(ref) == make_gx_path(ref.hash, ref.name)

\* the fields of each manifest other than gxDependencies
PackageTable ==
    (ProjectPath :> [has_gx |-> FALSE, dvcsimport |-> <<>>, version |-> None])
    @@ (RefPath(RefFoo) :>
          [has_gx |-> TRUE,
           dvcsimport |-> <<"github.com", "/", "org", "/", "foo", "/", "sub">>,
           version |-> Some(<<"1.0.0">>)])
    @@ (RefPath(RefErrors) :>
          [has_gx |-> TRUE,
           dvcsimport |-> <<"example.com", "/", "pkg", "/", "errors">>,
           version |-> None])
    @@ (RefPath(RefBbloom) :>
          [has_gx |-> TRUE,
           dvcsimport |-> <<"example.com", "/", "ipfs", "/", "bbloom">>,
           version |-> Some(<<"0.1.0">>)])

GxPackagePaths == (DOMAIN PackageTable) \ { ProjectPath }

\* the directories that hold a manifest when the run starts at root
DirsOnDisk(root) ==
    IF root = ProjectPath THEN DOMAIN PackageTable ELSE GxPackagePaths

\* every assignment of gxDependencies lists to dirs with at most k references in all
RECURSIVE ChildListsUpTo(_, _)
ChildListsUpTo(dirs, k) ==
    IF k = 0 THEN { [d \in dirs |-> <<>>] }
    ELSE LET less == ChildListsUpTo(dirs, k - 1)
         IN  less \cup { [g EXCEPT ![d] = Append(g[d], ref)] :
                           g \in less, d \in dirs, ref \in ChildRefs }

Manifest(dir, children) ==
    [gxDependencies |-> children,
     has_gx |-> PackageTable[dir].has_gx,
     dvcsimport |-> PackageTable[dir].dvcsimport,
     version |-> PackageTable[dir].version]

DiskOf(dirs, g) ==
    [f \in { PackageFilePath(d) : d \in dirs } |->
        LET d == CHOOSE d \in dirs : PackageFilePath(d) = f
        IN  Manifest(d, g[d])]

Disks(root) == { DiskOf(DirsOnDisk(root), g) : g \in ChildListsUpTo(DirsOnDisk(root), MaxRefs) }

RootPaths == { ProjectPath, RefPath(RefFoo), RefPath(RefGone) }

\* a missing manifest is read as an empty one
OpenManifestLenient(files, package_file_path) ==
    IF package_file_path \in DOMAIN files
    THEN [ok |-> TRUE, package_info |-> files[package_file_path]]
    ELSE [ok |-> TRUE,
          package_info |-> [gxDependencies |-> <<>>, has_gx |-> TRUE,
                            dvcsimport |-> <<>>, version |-> None]]

\* open() and json.load(): [ok |-> FALSE] stands for the exception
OpenManifest(files, package_file_path) ==
    IF package_file_path \in DOMAIN files
    THEN [ok |-> TRUE, package_info |-> files[package_file_path]]
    ELSE [ok |-> FALSE]

(* ---------------------------------------------------------------------- *)
(* get_repo_deps                                                           *)
(* ---------------------------------------------------------------------- *)
QueuePeek(q) == [repo_path |-> q[Len(q)], rest |-> q]

\* queue.pop()
QueuePop(q) == [repo_path |-> q[Len(q)], rest |-> SubSeq(q, 1, Len(q) - 1)]

NeverVisited(repo_path, visited) == FALSE

AlreadyVisited(repo_path, visited) == repo_path \in visited

\* the for loop over package_info['gxDependencies']
RECURSIVE PushDeps(_, _)
PushDeps(q, dep_infos) ==
    IF dep_infos = <<>> THEN q
    ELSE PushDeps(Append(q, make_gx_path(dep_infos[1].hash, dep_infos[1].name)),
                  Tail(dep_infos))

IsDependencyAlways(repo_path, root) == TRUE

IsDependency(repo_path, root) == repo_path # root

RepoVersion(repo_path, package_info) ==
    LET pkg == package_info.dvcsimport
        ex == extract_gx_hash(repo_path)
    IN  [gx_hash |-> ex.gx_hash,
         git_repo |-> GitRepoOf(ex.name, pkg),
         version |-> package_info.version,
         pkg |-> pkg]

\* package_info['gx']['dvcsimport'] and extract_gx_hash raise for these
RecordRaises(repo_path, package_info) ==
    \/ ~package_info.has_gx
    \/ ~extract_gx_hash(repo_path).ok

FilterGithub(ds) == SelectSeq(ds, LAMBDA rv : IsGithubRepo(rv.git_repo))

AfterWalk(m) ==
    CASE m = "update" -> "update"
      [] m = "download" -> "download"
      [] OTHER -> "returned"

\* an iteration whose path was visited before: continue
Skip(popped) ==
    /\ AlreadyVisited(popped.repo_path, visited_repos)
    /\ queue' = popped.rest
    /\ UNCHANGED <<fs, root_repo_path, mode, pc, visited_repos, deps, opens,
                   github_deps, idx, sink, downloaded, obs, inp, out>>

\* an iteration that reads the manifest and records the package
Visit(popped) ==
    LET repo_path == popped.repo_path
        package_file_path == PackageFilePath(repo_path)
        res == OpenManifest(fs, package_file_path)
    IN  /\ ~AlreadyVisited(repo_path, visited_repos)
        /\ res.ok
        /\ IsDependency(repo_path, root_repo_path)
              => ~RecordRaises(repo_path, res.package_info)
        /\ opens' = Append(opens, package_file_path)
        /\ queue' = PushDeps(popped.rest, res.package_info.gxDependencies)
        /\ visited_repos' = visited_repos \cup { repo_path }
        /\ deps' = IF IsDependency(repo_path, root_repo_path)
                   THEN Append(deps, RepoVersion(repo_path, res.package_info))
                   ELSE deps
        /\ UNCHANGED <<fs, root_repo_path, mode, pc, github_deps, idx, sink,
                       downloaded, obs, inp, out>>

\* an iteration in which reading the manifest raises: the exception leaves
\* get_repo_deps, do_update / do_download and the program
Fail(popped) ==
    LET repo_path == popped.repo_path
        package_file_path == PackageFilePath(repo_path)
        res == OpenManifest(fs, package_file_path)
    IN  /\ ~AlreadyVisited(repo_path, visited_repos)
        /\ \/ ~res.ok
           \/ /\ res.ok
              /\ IsDependency(repo_path, root_repo_path)
              /\ RecordRaises(repo_path, res.package_info)
        /\ opens' = Append(opens, package_file_path)
        /\ queue' = popped.rest
        /\ pc' = "failed"
        /\ UNCHANGED <<fs, root_repo_path, mode, visited_repos, deps, github_deps,
                       idx, sink, downloaded, obs, inp, out>>

WalkSkip ==
    /\ pc = "walk"
    /\ Len(queue) # 0
    /\ Skip(QueuePop(queue))

WalkVisit ==
    /\ pc = "walk"
    /\ Len(queue) # 0
    /\ Visit(QueuePop(queue))

WalkFail ==
    /\ pc = "walk"
    /\ Len(queue) # 0
    /\ Fail(QueuePop(queue))

\* the loop ends: filter and return
WalkReturn ==
    /\ pc = "walk"
    /\ Len(queue) = 0
    /\ github_deps' = Some(FilterGithub(deps))
    /\ idx' = 1
    /\ pc' = AfterWalk(mode)
    /\ UNCHANGED <<fs, root_repo_path, mode, queue, visited_repos, deps, opens,
                   sink, downloaded, obs, inp, out>>

InitRun(modes) ==
    /\ root_repo_path \in RootPaths
    /\ fs \in Disks(root_repo_path)
    /\ mode \in modes
    /\ pc = "walk"
    /\ queue = <<root_repo_path>>
    /\ visited_repos = {}
    /\ deps = <<>>
    /\ opens = <<>>
    /\ github_deps = None
    /\ idx = 0
    /\ sink = <<>>
    /\ downloaded = <<>>
    /\ obs = None
    /\ inp = None
    /\ out = None

(* get_repo_deps called on its own *)
InitWalk == InitRun({"walk"})

NextWalk == WalkSkip \/ WalkVisit \/ WalkFail \/ WalkReturn

\* the loop is sequential code: an iteration that can run does run
SpecWalk == InitWalk /\ [][NextWalk]_vars /\ WF_vars(NextWalk)

(* ---------------------------------------------------------------------- *)
(* The walk with the path removed from any place of the work list: the     *)
(* removal orders other than that of queue.pop()                           *)
(* ---------------------------------------------------------------------- *)
QueueRemoveAt(q, i) ==
    [repo_path |-> q[i], rest |-> SubSeq(q, 1, i - 1) \o SubSeq(q, i + 1, Len(q))]

SkipAnywhere ==
    /\ pc = "walk"
    /\ \E i \in 1..Len(queue) : Skip(QueueRemoveAt(queue, i))

VisitAnywhere ==
    /\ pc = "walk"
    /\ \E i \in 1..Len(queue) : Visit(QueueRemoveAt(queue, i))

FailAnywhere ==
    /\ pc = "walk"
    /\ \E i \in 1..Len(queue) : Fail(QueueRemoveAt(queue, i))

NextAnyOrder == SkipAnywhere \/ VisitAnywhere \/ FailAnywhere \/ WalkReturn

SpecAnyOrder == InitWalk /\ [][NextAnyOrder]_vars

(* ---------------------------------------------------------------------- *)
(* Queries on a downloaded repository                                      *)
(* ---------------------------------------------------------------------- *)
\* a failure is returned as [exc |-> its class]; exc is "none" on a return

\* `git tag`: tag is [rc, stdout]
is_version_in_repo(sem_ver, tag) ==
    IF tag.rc # 0 THEN [exc |-> "GetVersionFailure", val |-> FALSE]
    ELSE LET version_list == Split(tag.stdout, "\n")
         IN  [exc |-> "none", val |-> sem_ver \in Range(version_list)]

\* the exit status subprocess.run sees for `rev-list | xargs git grep | tail -n1`
\* run by the shell: that of the last command of the pipeline
PipelineStatus(rcs) == rcs.tail

CommitLen == 40

\* the hexadecimal digits among the characters of the model
HexDigits == { "0", "a" }
Whitespace == { " ", "\n" }
Signs == { "+", "-" }

RECURSIVE LStrip(_)
LStrip(s) == IF Len(s) > 0 /\ s[1] \in Whitespace THEN LStrip(Tail(s)) ELSE s

RECURSIVE RStrip(_)
RStrip(s) ==
    IF Len(s) > 0 /\ s[Len(s)] \in Whitespace THEN RStrip(SubSeq(s, 1, Len(s) - 1)) ELSE s

\* the digits of an integer literal: single underscores between digits
DigitsOk(d) ==
    /\ Len(d) >= 1
    /\ d[1] \in HexDigits
    /\ d[Len(d)] \in HexDigits
    /\ \A i \in 1..Len(d) : d[i] \in HexDigits \cup { "_" }
    /\ \A i \in 1..(Len(d) - 1) : ~(d[i] = "_" /\ d[i + 1] = "_")

\* whether int(token, 16) returns rather than raising ValueError
IntBase16Parses(token) ==
    LET t == RStrip(LStrip(token))
        u == IF Len(t) > 0 /\ t[1] \in Signs THEN Tail(t) ELSE t
        v == IF Len(u) >= 2 /\ u[1] = "0" /\ u[2] \in { "x", "X" }
             THEN (IF Len(u) >= 3 /\ u[3] = "_" THEN DropFirst(u, 3) ELSE DropFirst(u, 2))
             ELSE u
    IN  DigitsOk(v)

\* search is [rcs, stdout]
get_commit_from_repo(search) ==
    IF PipelineStatus(search.rcs) # 0 THEN [exc |-> "GetCommitFailure", val |-> None]
    ELSE LET result == search.stdout
             module_commit == Split(result, ":")[1]
         IN  IF ~IntBase16Parses(module_commit) THEN [exc |-> "none", val |-> None]
             ELSE IF Len(module_commit) # CommitLen THEN [exc |-> "none", val |-> None]
             ELSE [exc |-> "none", val |-> Some(module_commit)]

(* ---------------------------------------------------------------------- *)
(* Resolution and update                                                   *)
(* ---------------------------------------------------------------------- *)
SemVer(raw_version) == <<"v">> \o raw_version

\* q is what the repository answers: [tag, search]
parse_version_from_repo_gx_hash(raw_version, q) ==
    LET tagged == IF raw_version = None THEN [exc |-> "none", val |-> FALSE]
                  ELSE is_version_in_repo(SemVer(raw_version[1]), q.tag)
        version == IF raw_version # None /\ tagged.exc = "none" /\ tagged.val
                   THEN Some(SemVer(raw_version[1]))
                   ELSE None
        found == get_commit_from_repo(q.search)
    IN  IF tagged.exc # "none"
        THEN [exc |-> tagged.exc, version |-> None, commit |-> None,
              tag_queried |-> TRUE, search_queried |-> FALSE]
        ELSE [exc |-> found.exc, version |-> version, commit |-> found.val,
              tag_queried |-> raw_version # None, search_queried |-> TRUE]

\* the commit is tested before the version
CommitFirst(version, commit) ==
    IF commit # None THEN commit
    ELSE IF version # None THEN version
    ELSE None

\* the if / elif / else of update_repo_to_go_mod
VersionIndicator(version, commit) ==
    IF version # None THEN version
    ELSE IF commit # None THEN commit
    ELSE None

update_repo_to_go_mod(git_repo, version, commit) ==
    LET version_indicator == VersionIndicator(version, commit)
    IN  IF version_indicator = None THEN [exc |-> "ValueError", call |-> None]
        ELSE [exc |-> "none",
              call |-> Some([git_repo |-> git_repo, at |-> version_indicator[1]])]

ExceptCatchesNothing(exc) == FALSE

\* the except clause of the loop of update_repos
ExceptCatches(exc) == exc = "ValueError"

\* one iteration of the loop of update_repos
UpdateOne(repo_version, q) ==
    LET parsed == parse_version_from_repo_gx_hash(repo_version.version, q)
        observed == [dep |-> repo_version,
                     tag |-> IF parsed.tag_queried THEN Some(q.tag) ELSE None,
                     search |-> IF parsed.search_queried THEN Some(q.search) ELSE None,
                     commit |-> parsed.commit]
    IN  IF parsed.exc # "none"
        THEN [kind |-> "raised", exc |-> parsed.exc, call |-> None, observed |-> observed]
        ELSE LET upd == update_repo_to_go_mod(repo_version.git_repo,
                                              parsed.version, parsed.commit)
             IN  IF upd.exc = "none"
                 THEN [kind |-> "forwarded", exc |-> "none", call |-> upd.call,
                       observed |-> observed]
                 ELSE IF ExceptCatches(upd.exc)
                 THEN [kind |-> "skipped", exc |-> upd.exc, call |-> None,
                       observed |-> observed]
                 ELSE [kind |-> "raised", exc |-> upd.exc, call |-> None,
                       observed |-> observed]

(* what a repository may answer *)
HexRun(n) == [i \in 1..n |-> "a"]

TagStdouts ==
    { <<"v", "1.0.0", "\n">>,
      <<"v", "1.0.0", "-rc", "\n", "v", "1.0.1", "\n">>,
      <<"1.0.0", "\n">>,
      <<"v", "0.1.0", "\n", "v", "1.0.0", "\n">> }

TagAnswers ==
    { [rc |-> 0, stdout |-> t] : t \in TagStdouts } \cup { [rc |-> 128, stdout |-> <<>>] }

AllZero == [revlist |-> 0, xargs |-> 0, tail |-> 0]

\* no match (git grep leaves 1), a match, no repository, tail failed
SearchAnswers ==
    { [rcs |-> [revlist |-> 0, xargs |-> 123, tail |-> 0], stdout |-> <<>>],
      [rcs |-> AllZero,
       stdout |-> HexRun(CommitLen) \o <<":", "package.json", ":", "h1", "\n">>],
      [rcs |-> [revlist |-> 128, xargs |-> 123, tail |-> 0], stdout |-> <<>>],
      [rcs |-> [revlist |-> 0, xargs |-> 0, tail |-> 1], stdout |-> <<>>] }

\* what is not asked is not part of the answer
Answers(repo_version) ==
    { [tag |-> t, search |-> s] :
        t \in (IF repo_version.version = None THEN { [rc |-> 0, stdout |-> <<>>] }
               ELSE TagAnswers),
        s \in SearchAnswers }

Repos == github_deps[1]

\* the effect of one iteration of the loop of update_repos
Processed(res) ==
    /\ obs' = Some([at |-> idx, kind |-> res.kind, exc |-> res.exc,
                    call |-> res.call, observed |-> res.observed])
    /\ sink' = IF res.call = None THEN sink ELSE Append(sink, res.call[1])
    /\ idx' = IF res.kind = "raised" THEN idx ELSE idx + 1
    /\ pc' = IF res.kind = "raised" THEN "aborted" ELSE pc
    /\ UNCHANGED <<fs, root_repo_path, mode, queue, visited_repos, deps, opens,
                   github_deps, downloaded, inp, out>>

\* go get is run for the dependency
UpdateForward ==
    /\ pc = "update"
    /\ idx <= Len(Repos)
    /\ \E q \in Answers(Repos[idx]) :
          LET res == UpdateOne(Repos[idx], q)
          IN  res.kind = "forwarded" /\ Processed(res)

\* the ValueError of update_repo_to_go_mod is caught
UpdateSkip ==
    /\ pc = "update"
    /\ idx <= Len(Repos)
    /\ \E q \in Answers(Repos[idx]) :
          LET res == UpdateOne(Repos[idx], q)
          IN  res.kind = "skipped" /\ Processed(res)

\* an exception leaves update_repos, do_update and the program
UpdateRaise ==
    /\ pc = "update"
    /\ idx <= Len(Repos)
    /\ \E q \in Answers(Repos[idx]) :
          LET res == UpdateOne(Repos[idx], q)
          IN  res.kind = "raised" /\ Processed(res)

UpdateDone ==
    /\ pc = "update"
    /\ idx > Len(Repos)
    /\ pc' = "done"
    /\ UNCHANGED <<fs, root_repo_path, mode, queue, visited_repos, deps, opens,
                   github_deps, idx, sink, downloaded, obs, inp, out>>

(* ---------------------------------------------------------------------- *)
(* Download                                                                *)
(* ---------------------------------------------------------------------- *)
\* download_git_repo: clone when there is no .git yet, fetch otherwise
DownloadCommand(git_exists) == IF git_exists THEN "fetch" ELSE "clone"

Fetched(git_repo, git_exists) ==
    downloaded' = Append(downloaded,
                         [git_repo |-> git_repo, cmd |-> DownloadCommand(git_exists)])

DownloadOk ==
    /\ pc = "download"
    /\ idx <= Len(Repos)
    /\ \E git_exists \in BOOLEAN : Fetched(Repos[idx].git_repo, git_exists)
    /\ idx' = idx + 1
    /\ UNCHANGED <<fs, root_repo_path, mode, pc, queue, visited_repos, deps, opens,
                   github_deps, sink, obs, inp, out>>

\* git exits non-zero: DownloadFailure leaves download_repos, do_download and
\* the program
DownloadRaise ==
    /\ pc = "download"
    /\ idx <= Len(Repos)
    /\ \E git_exists \in BOOLEAN : Fetched(Repos[idx].git_repo, git_exists)
    /\ pc' = "aborted"
    /\ UNCHANGED <<fs, root_repo_path, mode, queue, visited_repos, deps, opens,
                   github_deps, idx, sink, obs, inp, out>>

DownloadDone ==
    /\ pc = "download"
    /\ idx > Len(Repos)
    /\ pc' = "done"
    /\ UNCHANGED <<fs, root_repo_path, mode, queue, visited_repos, deps, opens,
                   github_deps, idx, sink, downloaded, obs, inp, out>>

(* ---------------------------------------------------------------------- *)
(* The program: modes[mode](path)                                          *)
(* ---------------------------------------------------------------------- *)
Init == InitRun({"update", "download"})

Next ==
    \/ WalkSkip \/ WalkVisit \/ WalkFail \/ WalkReturn
    \/ UpdateForward \/ UpdateSkip \/ UpdateRaise \/ UpdateDone
    \/ DownloadOk \/ DownloadRaise \/ DownloadDone

Spec == Init /\ [][Next]_vars

(* ---------------------------------------------------------------------- *)
(* update_repos called on its own                                          *)
(* ---------------------------------------------------------------------- *)
RECURSIVE SeqsUpTo(_, _)
SeqsUpTo(S, n) ==
    IF n = 0 THEN { <<>> }
    ELSE LET less == SeqsUpTo(S, n - 1)
         IN  less \cup { Append(q, x) : q \in less, x \in S }

\* the records get_repo_deps builds for the packages of PackageTable
DepInputs == { RepoVersion(d, Manifest(d, <<>>)) : d \in GxPackagePaths }

InitUpdate ==
    /\ root_repo_path = ProjectPath
    /\ fs = <<>>
    /\ mode = "update"
    /\ pc = "update"
    /\ queue = <<>>
    /\ visited_repos = {}
    /\ deps = <<>>
    /\ opens = <<>>
    /\ github_deps \in { Some(l) : l \in SeqsUpTo(DepInputs, MaxDeps) }
    /\ idx = 1
    /\ sink = <<>>
    /\ downloaded = <<>>
    /\ obs = None
    /\ inp = None
    /\ out = None

NextUpdate == UpdateForward \/ UpdateSkip \/ UpdateRaise \/ UpdateDone

SpecUpdate == InitUpdate /\ [][NextUpdate]_vars

(* ---------------------------------------------------------------------- *)
(* The functions called on their own                                       *)
(* ---------------------------------------------------------------------- *)
InitCall(at, args) ==
    /\ root_repo_path = ProjectPath
    /\ fs = <<>>
    /\ mode = "call"
    /\ pc = at
    /\ queue = <<>>
    /\ visited_repos = {}
    /\ deps = <<>>
    /\ opens = <<>>
    /\ github_deps = None
    /\ idx = 0
    /\ sink = <<>>
    /\ downloaded = <<>>
    /\ obs = None
    /\ inp \in { Some(a) : a \in args }
    /\ out = None

(* the repository of (gx_pkg_name, pkg) *)
ExamplePkg ==
    <<"example.com", "/", "org", "/", "repo", "/", "sub", "/", "pkg">>

PkgInputs == SeqsUpTo({ "/", "example.com", "org" }, MaxPkgLen) \cup { ExamplePkg }

NameInputs == GxedNames \cup { <<"unknown">> }

InitLocate ==
    InitCall("locate", { [gx_pkg_name |-> n, pkg |-> p] : n \in NameInputs, p \in PkgInputs })

LocateCall ==
    /\ pc = "locate"
    /\ out' = Some(GitRepoOf(inp[1].gx_pkg_name, inp[1].pkg))
    /\ pc' = "located"
    /\ UNCHANGED <<fs, root_repo_path, mode, queue, visited_repos, deps, opens,
                   github_deps, idx, sink, downloaded, obs, inp>>

SpecLocate == InitLocate /\ [][LocateCall]_vars

(* get_commit_from_repo *)
TokenChars == { "a", "0", "x", "+", "_", " ", "g" }

\* the text before the first ':' of the last line the search prints
Tokens ==
    { pre \o HexRun(n) :
        pre \in SeqsUpTo(TokenChars, MaxAffix),
        n \in (CommitLen - MaxAffix - 1)..(CommitLen + 1) }

LineRests == { <<>>, <<"\n">>, <<":", "package.json", ":", "h1", "\n">> }

\* rev-list: 128 no repository; xargs: 123 git grep left 1..125 (1 is no
\* match), 127 the command could not be run; tail
ExitCodes ==
    { [revlist |-> a, xargs |-> b, tail |-> c] :
        a \in { 0, 128 }, b \in { 0, 123, 127 }, c \in { 0, 1 } }

InitCommit ==
    InitCall("search",
             { [rcs |-> r, stdout |-> t \o rest] :
                 r \in ExitCodes, t \in Tokens, rest \in LineRests })

CommitCall ==
    /\ pc = "search"
    /\ out' = Some(get_commit_from_repo(inp[1]))
    /\ pc' = "searched"
    /\ UNCHANGED <<fs, root_repo_path, mode, queue, visited_repos, deps, opens,
                   github_deps, idx, sink, downloaded, obs, inp>>

SpecCommit == InitCommit /\ [][CommitCall]_vars

(* ---------------------------------------------------------------------- *)
(* Properties of get_repo_deps                                             *)
(* ---------------------------------------------------------------------- *)
DirOfFile(package_file_path) == SubSeq(package_file_path, 1, Len(package_file_path) - 2)

HasManifest(dir) == PackageFilePath(dir) \in DOMAIN fs

\* the paths the manifest of dir refers to
ChildPaths(dir) ==
    IF HasManifest(dir)
    THEN { make_gx_path(d.hash, d.name) :
             d \in Range(fs[PackageFilePath(dir)].gxDependencies) }
    ELSE {}

RECURSIVE ReachFrom(_)
ReachFrom(S) ==
    LET T == S \cup UNION { ChildPaths(d) : d \in S }
    IN  IF T = S THEN S ELSE ReachFrom(T)

Reachable == ReachFrom({ root_repo_path })

OnCycle(dir) == dir \in ReachFrom(ChildPaths(dir))

Count(seq, x) == Cardinality({ i \in 1..Len(seq) : seq[i] = x })

AllReadable == \A d \in Reachable : HasManifest(d)

WalkReturned == pc = "returned" /\ Len(queue) = 0 /\ github_deps # None

\* C1: when every manifest reachable from the root is readable, cycles or
\* not, get_repo_deps terminates: the work list becomes empty and a result is
\* returned.
C1_WalkTerminates == (pc = "walk" /\ AllReadable) ~> WalkReturned

\* a walk that returned over a graph in which a dependency and the root
\* both lie on cycles
C1_Witness ==
    /\ WalkReturned
    /\ OnCycle(root_repo_path)
    /\ \E d \in visited_repos \ { root_repo_path } : OnCycle(d)

\* the manifests that were read: the last open() of a failed walk raised
OpenedOk == IF pc = "failed" THEN SubSeq(opens, 1, Len(opens) - 1) ELSE opens

OpenedDeps == SelectSeq(OpenedOk, LAMBDA f : f # PackageFilePath(root_repo_path))

\* C2: during one run of get_repo_deps no manifest path is opened twice, and
\* the records appended are, in order, one for each opened path other than
\* the root.
C2_ReadOnce ==
    /\ \A i, j \in 1..Len(opens) : opens[i] = opens[j] => i = j
    /\ Len(deps) = Len(OpenedDeps)
    /\ \A i \in 1..Len(deps) :
          deps[i] = RepoVersion(DirOfFile(OpenedDeps[i]), fs[OpenedDeps[i]])

\* a walk that returned after a path with two parents, itself on a cycle,
\* was popped more than once
C2_Witness ==
    /\ WalkReturned
    /\ \E d \in visited_repos \ { root_repo_path } :
          /\ Cardinality({ parent \in visited_repos : d \in ChildPaths(parent) }) >= 2
          /\ OnCycle(d)

\* the paths whose record the walk has to return
ExpectedDirs ==
    { d \in Reachable \ { root_repo_path } :
        IsGithubRepo(RepoVersion(d, fs[PackageFilePath(d)]).git_repo) }

\* C8: the records returned are exactly one for each path reachable from the
\* root, the root excluded, whose repository contains github.com; this is a
\* function of the manifests alone, not of the order of removal.
C8_ResultIsReachableGithub ==
    WalkReturned =>
        LET result == github_deps[1]
            expected == { RepoVersion(d, fs[PackageFilePath(d)]) : d \in ExpectedDirs }
        IN  /\ Len(result) = Cardinality(ExpectedDirs)
            /\ \A r \in Range(result) \cup expected :
                  Count(result, r) =
                     Cardinality({ d \in ExpectedDirs :
                                     RepoVersion(d, fs[PackageFilePath(d)]) = r })
            /\ \A r \in Range(result) : "github.com" \in Range(r.git_repo)

\* a walk from a gx package that a cycle leads back to, over a dependency
\* that is not on github.com, with a record returned
C8_Witness ==
    /\ WalkReturned
    /\ root_repo_path = RefPath(RefFoo)
    /\ OnCycle(root_repo_path)
    /\ RefPath(RefBbloom) \in visited_repos
    /\ Len(github_deps[1]) = 1

\* the names under which hash h was visited as a dependency
NamesVisited(h) ==
    { d.name : d \in { c \in ChildRefs : /\ c.hash = h
                                         /\ RefPath(c) \in visited_repos
                                         /\ RefPath(c) # root_repo_path } }

\* C10 as stated: no two records returned have the same gx_hash.
C10_HashUnique ==
    WalkReturned =>
        \A i, j \in 1..Len(github_deps[1]) :
            github_deps[1][i].gx_hash = github_deps[1][j].gx_hash => i = j

\* C10 amended: the path (hash and name) is the key: a hash has at most as
\* many records as names it was visited under, so two records share a hash
\* only when the hash is referenced under two names.
C10_PathUnique ==
    WalkReturned =>
        \A r \in Range(github_deps[1]) :
            Cardinality({ i \in 1..Len(github_deps[1]) :
                            github_deps[1][i].gx_hash = r.gx_hash })
               <= Cardinality(NamesVisited(r.gx_hash))

\* two records with the same hash are returned
C10_Witness ==
    /\ WalkReturned
    /\ \E i, j \in 1..Len(github_deps[1]) :
          i # j /\ github_deps[1][i].gx_hash = github_deps[1][j].gx_hash

(* ---------------------------------------------------------------------- *)
(* Properties of the run                                                   *)
(* ---------------------------------------------------------------------- *)
\* C7: when an open() of the walk raised, the program has failed: nothing was
\* returned by get_repo_deps, go get was never run and nothing was downloaded.
C7_ManifestFailureIsFatal ==
    (pc = "failed" \/ \E i \in 1..Len(opens) : opens[i] \notin DOMAIN fs) =>
        /\ pc = "failed"
        /\ github_deps = None
        /\ sink = <<>>
        /\ downloaded = <<>>

\* an update run that failed on a missing manifest after records were collected
C7_Witness ==
    /\ pc = "failed"
    /\ mode = "update"
    /\ Len(deps) >= 1
    /\ opens[Len(opens)] \notin DOMAIN fs

(* ---------------------------------------------------------------------- *)
(* Properties of update_repos                                              *)
(* ---------------------------------------------------------------------- *)
TagListingFailed(o) == o.observed.tag # None /\ o.observed.tag[1].rc # 0

\* a command of the search pipeline could not do its work: rev-list failed,
\* git grep could not be run, or tail failed (xargs leaving 123 is also what
\* a search without a match leaves)
ExecutionFailed(rcs) == rcs.revlist # 0 \/ rcs.xargs = 127 \/ rcs.tail # 0

SearchFailed(o) ==
    /\ o.observed.search # None
    /\ ExecutionFailed(o.observed.search[1].rcs)

\* the exit status of the search that subprocess.run reports is not zero
SearchStatusFailed(o) == o.observed.search # None /\ o.observed.search[1].rcs.tail # 0

\* C3 as stated: a dependency whose tag listing or history search failed to
\* execute is skipped and the loop goes on to the next one.
C3_QueryFailureIsSkipped ==
    (obs # None /\ (TagListingFailed(obs[1]) \/ SearchFailed(obs[1]))) =>
        /\ pc # "aborted"
        /\ idx = obs[1].at + 1

\* C3 amended: the run aborts exactly when a query raised (the tag listing
\* exited non-zero, or the search pipeline's exit status was non-zero), and
\* then no later dependency is processed; a dependency for which neither a
\* version nor a commit was found is skipped and the loop goes on; a run that
\* ends normally has processed every dependency.
C3_OnlyUnresolvedIsSkipped ==
    /\ obs # None =>
          LET o == obs[1]
          IN  /\ (pc = "aborted") <=> (TagListingFailed(o) \/ SearchStatusFailed(o))
              /\ pc = "aborted" =>
                    /\ idx = o.at
                    /\ o.call = None
                    /\ o.exc \in { "GetVersionFailure", "GetCommitFailure" }
              /\ pc # "aborted" =>
                    /\ idx = o.at + 1
                    /\ o.kind \in { "forwarded", "skipped" }
                    /\ o.kind = "skipped" <=> o.call = None
                    /\ o.kind = "forwarded" => sink[Len(sink)] = o.call[1]
    /\ pc = "done" => idx = Len(Repos) + 1

\* the first dependency was skipped as unresolved and the second was
\* forwarded to go get
C3_Witness ==
    /\ obs # None
    /\ obs[1].at = 2
    /\ obs[1].kind = "forwarded"
    /\ Len(sink) = 1

\* the tag that is looked for, when the listing has it as one of its lines
TagFound(o) ==
    IF o.observed.dep.version = None \/ o.observed.tag = None THEN None
    ELSE LET want == <<"v">> \o o.observed.dep.version[1]
             lines == Split(o.observed.tag[1].stdout, "\n")
         IN  IF \E i \in 1..Len(lines) : lines[i] = want THEN Some(want) ELSE None

\* the commit id get_commit_from_repo returned, if any
CommitFound(o) == o.observed.commit

QueriesSucceeded(o) == ~TagListingFailed(o) /\ ~SearchFailed(o)

\* C4: for a dependency whose queries succeed, go get is given the tag
\* 'v' + declared version when that tag is a line of the tag listing, whether
\* or not a commit was found; otherwise the commit found; otherwise nothing,
\* and the dependency is reported as failed.  Without a declared version the
\* tags are not listed.
C4_ForwardedValue ==
    (obs # None /\ QueriesSucceeded(obs[1])) =>
        LET o == obs[1]
            want == IF TagFound(o) # None THEN TagFound(o) ELSE CommitFound(o)
        IN  /\ o.observed.dep.version = None => o.observed.tag = None
            /\ want # None =>
                  /\ o.kind = "forwarded"
                  /\ o.call = Some([git_repo |-> o.observed.dep.git_repo, at |-> want[1]])
                  /\ sink[Len(sink)] = o.call[1]
            /\ want = None =>
                  /\ o.kind = "skipped"
                  /\ o.call = None

\* the tag and a commit were both found and the tag was forwarded
C4_Witness ==
    /\ obs # None
    /\ obs[1].kind = "forwarded"
    /\ TagFound(obs[1]) # None
    /\ CommitFound(obs[1]) # None
    /\ sink[Len(sink)].at = <<"v", "1.0.0">>

(* ---------------------------------------------------------------------- *)
(* Properties of get_commit_from_repo                                      *)
(* ---------------------------------------------------------------------- *)
\* C5 as stated: when the commit listing or the search could not be run, the
\* call raises GetCommitFailure and does not return None.
C5_ExecutionFailureRaises ==
    (pc = "searched" /\ ExecutionFailed(inp[1].rcs)) =>
        out[1].exc = "GetCommitFailure"

CandidateToken == Split(inp[1].stdout, ":")[1]

\* C6 as stated: a value returned is 40 hexadecimal digits, and a candidate
\* token of another length or with a character that is no hexadecimal digit
\* gives None.
C6_NeverMalformed ==
    (pc = "searched" /\ out[1].exc = "none") =>
        /\ out[1].val # None =>
              /\ Len(out[1].val[1]) = CommitLen
              /\ \A i \in 1..Len(out[1].val[1]) : out[1].val[1][i] \in HexDigits
        /\ (\/ Len(CandidateToken) # CommitLen
            \/ \E i \in 1..Len(CandidateToken) : CandidateToken[i] \notin HexDigits)
              => out[1].val = None

(* ---------------------------------------------------------------------- *)
(* Properties of the repository of a package                               *)
(* ---------------------------------------------------------------------- *)
\* pkg up to, and without, its third "/"; all of pkg when it has fewer
FirstThreeSegments(pkg) ==
    LET slashes == { i \in 1..Len(pkg) : pkg[i] = "/" }
    IN  IF Cardinality(slashes) < 3 THEN pkg
        ELSE LET third == CHOOSE i \in slashes :
                             Cardinality({ j \in slashes : j < i }) = 2
             IN  SubSeq(pkg, 1, third - 1)

\* C9: the repository is the entry of the override table when the name is a
\* key of the table other than bbloom, whatever the import path; otherwise it
\* is the first three slash-delimited segments of the import path joined by
\* "/" (fewer when the path has fewer).
C9_Location ==
    pc = "located" =>
        LET name == inp[1].gx_pkg_name
            pkg == inp[1].pkg
        IN  IF name \in GxedNames /\ name # <<"bbloom">>
            THEN out[1] = <<"github.com", "/", "gxed", "/">> \o name
            ELSE out[1] = FirstThreeSegments(pkg)

\* ('unknown', 'example.com/org/repo/sub/pkg') gave 'example.com/org/repo'
C9_Witness ==
    /\ pc = "located"
    /\ inp[1] = [gx_pkg_name |-> <<"unknown">>, pkg |-> ExamplePkg]
    /\ out[1] = <<"example.com", "/", "org", "/", "repo">>

====
